---- MODULE Spec2Model ----
(***************************************************************************)
(* Model of the client/server throughput benchmark (src/server.py,         *)
(* src/client.py): UDP offer broadcast and discovery, the server's         *)
(* dispatch loop, the TCP and UDP transfer responders, the client's TCP    *)
(* and UDP download workers and the collection of their results.           *)
(*                                                                         *)
(* Representation of a datagram's bytes: a record                          *)
(*     [bytes |-> the leading bytes, written out, pad |-> n]               *)
(* stands for `bytes` followed by n filler bytes (the payload, whose       *)
(* content the programs never look at).  Integers wider than TLC's 32 bits *)
(* (the 32-bit magic cookie) are kept as their big-endian byte tuples.     *)
(***************************************************************************)
EXTENDS Integers, Sequences, FiniteSets, TLC

\* ------------------------------------------------------------- constants
\* 0xabcddcba as the four bytes struct's "!I" writes and reads
MAGIC_COOKIE == <<171, 205, 220, 186>>
MSG_TYPE_OFFER == 2
MSG_TYPE_REQUEST == 3
MSG_TYPE_PAYLOAD == 4
BROADCAST_LISTEN_PORT == 13117
CLIENT_LISTEN_PORT == 13117
DEFAULT_UDP_PORT == 2025
DEFAULT_TCP_PORT == 2026
CHUNK_SIZE == 1024
\* s.recv(4096) of the TCP worker
TCP_RECV_SIZE == 4096
\* the filler byte "B" of a UDP payload
FILL_BYTE == 66
\* conn.settimeout(5.0): seconds a recv of the TCP responder waits
CONN_TIMEOUT == 5

\* ---------------------------------------------------------------- bounds
\* largest file size of the single-responder specification
MaxFileSize == 3100
\* the file size of a multi-segment transfer of the single-session specifications
BigFile == 2500
\* the positive file size of the whole-system specification
SmallFile == 1
\* TCP reads return a multiple of RecvGrain bytes, or all that is buffered
RecvGrain == 700
\* events (datagrams, timeouts) one discovery is followed over
MaxSeen == 3
\* events of the environment over a behaviour: a datagram that is not the
\* server's, a duplicate delivery, a transport error, a responder's timeout
MaxEvents == 1
\* seconds a connection is followed over after its accept
MaxAge == 7
\* characters a TCP client other than the worker sends
MaxRawBytes == 3
\* the numbers of workers the user may enter
MaxWorkers == 2
\* a request line is read in multiples of LineGrain characters, or to its end
LineGrain == 2
\* clock ticks a worker's duration may take
MaxDuration == 1

\* python's None, for an integer-valued name
None == -1
\* python's None, for a tuple-valued result slot
NoResult == <<>>

\* -------------------------------------------------------------- wire codec
Min(a, b) == IF a < b THEN a ELSE b

\* struct.pack of one unsigned big-endian integer n on w bytes
RECURSIVE PackBE(_, _)
PackBE(n, w) == IF w = 0 THEN <<>> ELSE Append(PackBE(n \div 256, w - 1), n % 256)

\* struct.unpack of one unsigned big-endian integer
\* (the value of the first n bytes, most significant byte first)
RECURSIVE UnpackPrefix(_, _)
UnpackPrefix(bs, n) == IF n = 0 THEN 0 ELSE UnpackPrefix(bs, n - 1) * 256 + bs[n]

UnpackBE(bs) == UnpackPrefix(bs, Len(bs))

\* len(data)
DataLen(data) == Len(data.bytes) + data.pad

\* the byte at 0-based offset i of data
ByteAt(data, i) == IF i < Len(data.bytes) THEN data.bytes[i + 1] ELSE FILL_BYTE

\* the n bytes of data from 0-based offset off
Slice(data, off, n) == [k \in 1..n |-> ByteAt(data, off + k - 1)]

\* struct.unpack_from needs offset + size bytes, else raises struct.error
CanUnpack(data, off, size) == off + size <= DataLen(data)

\* struct.pack("!IBHH", MAGIC_COOKIE, MSG_TYPE_OFFER, udp_port, tcp_port)
PackOffer(udp, tcp) ==
    [bytes |-> MAGIC_COOKIE \o <<MSG_TYPE_OFFER>> \o PackBE(udp, 2) \o PackBE(tcp, 2),
     pad |-> 0]

\* struct.pack("!IBQ", MAGIC_COOKIE, MSG_TYPE_REQUEST, file_size)
PackRequest(size) ==
    [bytes |-> MAGIC_COOKIE \o <<MSG_TYPE_REQUEST>> \o PackBE(size, 8), pad |-> 0]

\* struct.pack("!IBQQ", ...) + dummy_data[:payload_size]
PackPayload(total, seg, payload_size) ==
    [bytes |-> MAGIC_COOKIE \o <<MSG_TYPE_PAYLOAD>> \o PackBE(total, 8) \o PackBE(seg, 8),
     pad |-> payload_size]

\* struct.unpack_from("!HH", data, 5): (server_udp_port, server_tcp_port)
UnpackOfferPortsSwapped(data) ==
    <<UnpackBE(Slice(data, 7, 2)), UnpackBE(Slice(data, 5, 2))>>

UnpackOfferPorts(data) ==
    <<UnpackBE(Slice(data, 5, 2)), UnpackBE(Slice(data, 7, 2))>>

\* struct.unpack_from("!QQ", data, 5): (total_seg, current_seg)
UnpackPayloadSwapped(data) ==
    <<UnpackBE(Slice(data, 13, 8)), UnpackBE(Slice(data, 5, 8))>>

UnpackPayload(data) ==
    <<UnpackBE(Slice(data, 5, 8)), UnpackBE(Slice(data, 13, 8))>>

\* struct.unpack_from("!Q", data, 5)[0]
UnpackRequestSizeLowByte(data) == UnpackBE(Slice(data, 12, 1))

UnpackRequestSize(data) == UnpackBE(Slice(data, 5, 8))

\* --------------------------------------------------- the three receive sites
\* `if len(data) < n: continue`
TooShortNever(data, n) == FALSE

TooShort(data, n) == DataLen(data) < n

\* The discovery loop's treatment of one datagram (client.py main): "continue"
\* (skipped), "break" (a valid offer, with the ports read) or "raise"
\* (struct.error on a read beyond the buffer).
DiscoveryHandle(data) ==
    IF TooShort(data, 9) THEN [kind |-> "continue", udp |-> None, tcp |-> None]
    ELSE IF ~CanUnpack(data, 0, 5) THEN [kind |-> "raise", udp |-> None, tcp |-> None]
    ELSE IF Slice(data, 0, 4) = MAGIC_COOKIE /\ ByteAt(data, 4) = MSG_TYPE_OFFER
         THEN IF ~CanUnpack(data, 5, 4)
              THEN [kind |-> "raise", udp |-> None, tcp |-> None]
              ELSE [kind |-> "break", udp |-> UnpackOfferPorts(data)[1],
                    tcp |-> UnpackOfferPorts(data)[2]]
         ELSE [kind |-> "continue", udp |-> None, tcp |-> None]

\* The dispatcher's treatment of one UDP datagram (server.py main): "continue"
\* (back to the top of the loop), "spawn" (a valid request) or "raise".
RequestHandle(data) ==
    IF TooShort(data, 13) THEN [kind |-> "continue", file_size |-> None]
    ELSE IF ~CanUnpack(data, 0, 5) THEN [kind |-> "raise", file_size |-> None]
    ELSE IF Slice(data, 0, 4) # MAGIC_COOKIE \/ ByteAt(data, 4) # MSG_TYPE_REQUEST
         THEN [kind |-> "continue", file_size |-> None]
         ELSE IF ~CanUnpack(data, 5, 8)
              THEN [kind |-> "raise", file_size |-> None]
              ELSE [kind |-> "spawn", file_size |-> UnpackRequestSize(data)]

\* The UDP worker's treatment of one datagram (udp_download_worker):
\* "continue", "accept" (a payload segment) or "raise".
PayloadHandle(data) ==
    IF TooShort(data, 21)
    THEN [kind |-> "continue", total_seg |-> None, current_seg |-> None, len |-> 0]
    ELSE IF ~CanUnpack(data, 0, 5)
    THEN [kind |-> "raise", total_seg |-> None, current_seg |-> None, len |-> 0]
    ELSE IF Slice(data, 0, 4) # MAGIC_COOKIE \/ ByteAt(data, 4) # MSG_TYPE_PAYLOAD
         THEN [kind |-> "continue", total_seg |-> None, current_seg |-> None, len |-> 0]
         ELSE IF ~CanUnpack(data, 5, 16)
              THEN [kind |-> "raise", total_seg |-> None, current_seg |-> None, len |-> 0]
              ELSE [kind |-> "accept",
                    total_seg |-> UnpackPayload(data)[1],
                    current_seg |-> UnpackPayload(data)[2],
                    len |-> DataLen(data) - (5 + 16)]

\* ------------------------------------------------------- transfer arithmetic
\* total_segments = (file_size + CHUNK_SIZE - 1) // CHUNK_SIZE
TotalSegmentsFloor(size) == size \div CHUNK_SIZE

TotalSegments(size) == (size + CHUNK_SIZE - 1) \div CHUNK_SIZE

\* payload_size = min(CHUNK_SIZE, file_size - seg_idx * CHUNK_SIZE)
PayloadSizeFull(size, seg_idx) == CHUNK_SIZE

PayloadSizeRemaining(size, seg_idx) == size - seg_idx * CHUNK_SIZE

PayloadSize(size, seg_idx) == Min(CHUNK_SIZE, size - seg_idx * CHUNK_SIZE)

\* to_send = min(file_size - bytes_sent, CHUNK_SIZE)
ToSendFull(size, bytes_sent) == CHUNK_SIZE

ToSend(size, bytes_sent) == Min(size - bytes_sent, CHUNK_SIZE)

\* A float quotient n / d is kept as the pair <<n, d>>; d = 0 stands for the
\* ZeroDivisionError python raises.
RatEq(a, b) == a[2] # 0 /\ b[2] # 0 /\ a[1] * b[2] = b[1] * a[2]

Raises(q) == q[2] = 0

\* speed_bps = (total * 8) / duration if duration > 0 else 0
SpeedBps(total, duration) == IF duration > 0 THEN <<total * 8, duration>> ELSE <<0, 1>>

\* success_percentage = (100.0 * received_count / total_segments)
\*                      if total_segments > 0 else 0.0
SuccessPercentageUnguarded(received_count, total) == <<100 * received_count, total>>

SuccessPercentageUnscaled(received_count, total) ==
    IF total > 0 THEN <<received_count, total>> ELSE <<0, 1>>

SuccessPercentage(received_count, total) ==
    IF total > 0 THEN <<100 * received_count, total>> ELSE <<0, 1>>

\* ------------------------------------------------------- the TCP request line
Digits == <<"0", "1", "2", "3", "4", "5", "6", "7", "8", "9">>

\* str(n) of a python int
RECURSIVE Str(_)
Str(n) ==
    IF n < 0 THEN <<"-">> \o Str(-n)
    ELSE IF n < 10 THEN <<Digits[n + 1]>>
    ELSE Str(n \div 10) \o <<Digits[(n % 10) + 1]>>

\* request_str = str(file_size) + "\n"
RequestStr(size) == Str(size) \o <<"\n">>

IsSpace(c) == c \in {"\n", " ", "\t", "\r"}

\* line.strip()
RECURSIVE Strip(_)
Strip(cs) ==
    IF cs = <<>> THEN cs
    ELSE IF IsSpace(cs[1]) THEN Strip(Tail(cs))
    ELSE IF IsSpace(cs[Len(cs)]) THEN Strip(SubSeq(cs, 1, Len(cs) - 1))
    ELSE cs

DigitValue(c) == CHOOSE v \in 0..9 : Digits[v + 1] = c

AllDigits(cs) == cs # <<>> /\ \A k \in 1..Len(cs) : \E v \in 0..9 : Digits[v + 1] = cs[k]

RECURSIVE DigitsValue(_)
DigitsValue(cs) ==
    IF cs = <<>> THEN 0
    ELSE DigitsValue(SubSeq(cs, 1, Len(cs) - 1)) * 10 + DigitValue(cs[Len(cs)])

\* int(line): [ok |-> FALSE] stands for ValueError
ParseInt(cs) ==
    LET s == Strip(cs)
        signed == s # <<>> /\ s[1] \in {"-", "+"}
        body == IF signed THEN Tail(s) ELSE s
    IN  IF AllDigits(body)
        THEN [ok |-> TRUE,
              val |-> IF signed /\ s[1] = "-" THEN -DigitsValue(body) ELSE DigitsValue(body)]
        ELSE [ok |-> FALSE, val |-> 0]

\* `b"\n" in data`
HasNewline(cs) == \E k \in 1..Len(cs) : cs[k] = "\n"

\* ------------------------------------------------------------------- state
VARIABLES
    cpc,             \* client main: "listen", "input", "join", "crashed"
    seen,            \* what the current discovery has received, in order
    retries,         \* "No offer received, retrying..." lines of this discovery
    server_ip,       \* client main's server_ip (NoHost for None)
    server_udp_port, \* client main's server_udp_port
    server_tcp_port, \* client main's server_tcp_port
    file_size,       \* client main's file_size of the current run
    runs,            \* benchmark runs started (the model follows the first)
    tcpw,            \* the TCP worker threads of the run, by idx + 1
    udpw,            \* the UDP worker threads of the run, by idx + 1
    tcp_results,     \* client main's tcp_results
    udp_results,     \* client main's udp_results
    net,             \* UDP datagrams queued for an open socket
    conn,            \* the TCP connections, by the TCP worker that opened them
    backlog,         \* connections the listening socket has not accepted yet
    spc,             \* server main: "udp" (at recvfrom), "tcp" (at accept),
                     \* "finally" (in its finally block), "stopped" (process ended)
    udp_port,        \* server main's udp_port
    tcp_port,        \* server main's tcp_port
    stop_event,      \* server main's stop_event
    server_exc,      \* the exception that made server main leave its loop, "" for none
    late_offers,     \* history: offers sent since stop_event was set
    bpc,             \* broadcast_offers: "test", "send", "stopped"
    udp_threads,     \* the handle_udp_request threads, in spawning order
    tcp_threads,     \* the handle_tcp_connection threads, in spawning order
    events           \* events of the environment so far

vars == <<cpc, seen, retries, server_ip, server_udp_port, server_tcp_port, file_size, runs,
          tcpw, udpw, tcp_results, udp_results, net, conn, backlog,
          spc, udp_port, tcp_port, stop_event, server_exc, late_offers, bpc,
          udp_threads, tcp_threads,
          events>>

clientMain == <<cpc, seen, retries, server_ip, server_udp_port, server_tcp_port, file_size, runs>>
workers == <<tcpw, udpw, tcp_results, udp_results>>
serverMain == <<spc, udp_port, tcp_port, stop_event, server_exc, late_offers>>
budgets == <<events>>

\* ---------------------------------------------------------------- addresses
ServerHost == "server"
ClientHost == "client"
OtherHost == "other"
BroadcastHost == "255.255.255.255"
NoHost == ""

Addr(h, p) == [host |-> h, port |-> p]

\* the port the OS gives the socket of UDP worker i (distinct per socket)
EphemeralPort(i) == 49152 + i

WorkerAddr(i) == Addr(ClientHost, EphemeralPort(i))
DiscoveryAddr == Addr(BroadcastHost, BROADCAST_LISTEN_PORT)

\* A datagram: who sent it, where to, its bytes, and (history only) the UDP
\* worker whose request it answers or carries, 0 for none.
Datagram(s, d, bs, o) == [src |-> s, dst |-> d, data |-> bs, owner |-> o]

\* the discovery socket is bound while main listens for an offer
DiscoveryOpen == cpc = "listen"

\* the socket of UDP worker i, from socket.socket(...) to s.close()
WorkerSocketOpen(i) == i \in 1..Len(udpw) /\ udpw[i].pc \in {"start", "recv"}

\* whether some open socket receives what is sent to address a
Bound(a) ==
    \/ a.port = CLIENT_LISTEN_PORT /\ a.host \in {BroadcastHost, ClientHost} /\ DiscoveryOpen
    \/ a.host = ServerHost /\ a.port = udp_port /\ spc # "stopped"
    \/ \E i \in 1..Len(udpw) : a = WorkerAddr(i) /\ WorkerSocketOpen(i)

\* sendto: a datagram to a port nobody is bound to is lost
Sent(d) == IF Bound(d.dst) THEN net \cup {d} ELSE net

ToDiscovery(d) == d.dst.port = CLIENT_LISTEN_PORT /\ d.dst.host \in {BroadcastHost, ClientHost}
ToServer(d) == d.dst = Addr(ServerHost, udp_port)
ToWorker(d, i) == d.dst = WorkerAddr(i)

\* -------------------------------------------------------- offer broadcaster
\* (a loop that never tests the cancellation signal)
BroadcastTestNever ==
    /\ bpc = "test"
    /\ bpc' = "send"
    /\ UNCHANGED <<clientMain, workers, net, conn, backlog, serverMain,
                   udp_threads, tcp_threads, budgets>>

\* `while not stop_event.is_set()`, and sock.close() once it is
BroadcastTest ==
    /\ bpc = "test"
    /\ bpc' = IF stop_event THEN "stopped" ELSE "send"
    /\ UNCHANGED <<clientMain, workers, net, conn, backlog, serverMain,
                   udp_threads, tcp_threads, budgets>>

\* the offer is packed and sent, then time.sleep(BROADCAST_INTERVAL)
BroadcastSend ==
    /\ bpc = "send"
    /\ net' = Sent(Datagram(Addr(ServerHost, EphemeralPort(0)), DiscoveryAddr,
                            PackOffer(udp_port, tcp_port), 0))
    /\ bpc' = "test"
    /\ late_offers' = IF stop_event THEN late_offers + 1 ELSE late_offers
    /\ UNCHANGED <<clientMain, workers, conn, backlog, spc, udp_port, tcp_port, stop_event,
                   server_exc, udp_threads, tcp_threads, budgets>>

\* sendto raises: the error is printed and the loop goes on
BroadcastSendFail ==
    /\ bpc = "send"
    /\ events < MaxEvents
    /\ events' = events + 1
    /\ bpc' = "test"
    /\ UNCHANGED <<clientMain, workers, net, conn, backlog, serverMain,
                   udp_threads, tcp_threads>>

\* ---------------------------------------------------------- the environment
\* what another host may send to the discovery port: another server's offer,
\* and datagrams that are no offer
OtherOffer == PackOffer(DEFAULT_TCP_PORT, DEFAULT_UDP_PORT)
WrongMagic(data) == [data EXCEPT !.bytes[1] = 0]
Truncated(data, n) == [bytes |-> SubSeq(data.bytes, 1, n), pad |-> 0]

WrongType(data, t) == [data EXCEPT !.bytes[5] = t]

ForeignToDiscovery ==
    {OtherOffer, WrongMagic(OtherOffer), Truncated(OtherOffer, 8), Truncated(OtherOffer, 3),
     WrongType(OtherOffer, MSG_TYPE_REQUEST)}

\* what another host may send to the server's UDP port: no valid request
ForeignToServer ==
    {WrongMagic(PackRequest(1)), Truncated(PackRequest(1), 12), Truncated(PackRequest(1), 4),
     WrongType(PackRequest(1), MSG_TYPE_OFFER)}

\* what another host may send to a UDP worker's socket: no valid payload
ForeignToWorker ==
    {WrongMagic(PackPayload(1, 0, 1)), Truncated(PackPayload(1, 0, 1), 20),
     Truncated(PackPayload(1, 0, 1), 2), WrongType(PackPayload(1, 0, 1), MSG_TYPE_REQUEST)}

\* What a receive on a socket may return: a datagram of the network sent to it
\* (taken out of the network), a duplicate of one (left in the network), or a
\* datagram of another host, one of `others`, sent to `dst`.
Arrivals(queued, others, dst) ==
    {[d |-> d, how |-> "net"] : d \in queued}
    \cup (IF events < MaxEvents
          THEN {[d |-> d, how |-> "dup"] : d \in queued}
               \cup {[d |-> Datagram(Addr(OtherHost, EphemeralPort(0)), dst, data, 0),
                      how |-> "foreign"] : data \in others}
          ELSE {})

AfterArrival(a) == IF a.how = "net" THEN net \ {a.d} ELSE net
EventsAfter(a) == IF a.how = "net" THEN events ELSE events + 1

\* the network loses a datagram
NetLose ==
    /\ \E d \in net : net' = net \ {d}
    /\ UNCHANGED <<clientMain, workers, conn, backlog, serverMain, bpc,
                   udp_threads, tcp_threads, budgets>>

\* ------------------------------------------------------- discovery listener
TimeoutEvent == [ev |-> "timeout", host |-> NoHost, data |-> [bytes |-> <<>>, pad |-> 0]]
ErrorEvent == [ev |-> "error", host |-> NoHost, data |-> [bytes |-> <<>>, pad |-> 0]]
DatagramEvent(d) == [ev |-> "datagram", host |-> d.src.host, data |-> d.data]

\* `except socket.timeout:` of the discovery loop
DiscoveryCatchesNothing(exc) == FALSE

DiscoveryCatches(exc) == exc = "timeout"

\* s.recvfrom(1024) returns a datagram
DiscoveryArrivals ==
    Arrivals({e \in net : ToDiscovery(e)}, ForeignToDiscovery, DiscoveryAddr)

ClientDiscoveryRecvOf(a) ==
    /\ cpc = "listen"
    /\ runs = 0
    /\ Len(seen) < MaxSeen
    /\    /\ seen' = Append(seen, DatagramEvent(a.d))
          /\ events' = EventsAfter(a)
          /\ LET h == DiscoveryHandle(a.d.data) IN
             CASE h.kind = "continue" ->
                    /\ net' = AfterArrival(a)
                    /\ UNCHANGED <<cpc, server_ip, server_udp_port, server_tcp_port>>
               [] h.kind = "break" ->
                    /\ server_udp_port' = h.udp
                    /\ server_tcp_port' = h.tcp
                    /\ server_ip' = a.d.src.host
                    /\ cpc' = "input"
                    /\ net' = {e \in net : ~ToDiscovery(e)}
               [] h.kind = "raise" ->
                    /\ cpc' = "crashed"
                    /\ net' = {e \in net : ~ToDiscovery(e)}
                    /\ UNCHANGED <<server_ip, server_udp_port, server_tcp_port>>
    /\ UNCHANGED <<retries, file_size, runs, workers, conn, backlog, serverMain, bpc,
                   udp_threads, tcp_threads>>

ClientDiscoveryRecv == \E a \in DiscoveryArrivals : ClientDiscoveryRecvOf(a)

\* s.recvfrom(1024) raises socket.timeout after 5 seconds
ClientDiscoveryTimeout ==
    /\ cpc = "listen"
    /\ runs = 0
    /\ Len(seen) < MaxSeen
    /\ seen' = Append(seen, TimeoutEvent)
    /\ IF DiscoveryCatches("timeout")
       THEN retries' = retries + 1 /\ UNCHANGED <<cpc, net>>
       ELSE cpc' = "crashed" /\ net' = {e \in net : ~ToDiscovery(e)} /\ UNCHANGED retries
    /\ UNCHANGED <<server_ip, server_udp_port, server_tcp_port, file_size, runs, workers,
                   conn, backlog, serverMain, bpc, udp_threads, tcp_threads, budgets>>

\* s.recvfrom(1024) raises another OSError
ClientDiscoveryError ==
    /\ cpc = "listen"
    /\ runs = 0
    /\ Len(seen) < MaxSeen
    /\ events < MaxEvents
    /\ events' = events + 1
    /\ seen' = Append(seen, ErrorEvent)
    /\ IF DiscoveryCatches("oserror")
       THEN retries' = retries + 1 /\ UNCHANGED <<cpc, net>>
       ELSE cpc' = "crashed" /\ net' = {e \in net : ~ToDiscovery(e)} /\ UNCHANGED retries
    /\ UNCHANGED <<server_ip, server_udp_port, server_tcp_port, file_size, runs, workers,
                   conn, backlog, serverMain, bpc, udp_threads, tcp_threads>>

\* ------------------------------------------------------------- client main
\* the file sizes the user may enter
FileSizes == {-1, 0, SmallFile}

NewTcpWorker == [pc |-> "connect", total_received |-> 0]
NewUdpWorker ==
    [pc |-> "start", total_bytes_received |-> 0, total_segments |-> None,
     received_segments |-> {}, exit |-> "",
     \* history: the datagrams taken as payload segments, and the first of them
     accepted |-> {}, first |-> <<>>]
NoConn == [cli |-> "none", srv |-> "none", c2s |-> <<>>, s2c |-> 0, failed |-> FALSE]

\* the three inputs are numbers: the result lists are made and every worker
\* thread is started
ClientInput ==
    /\ cpc = "input"
    /\ runs = 0
    /\ runs' = runs + 1
    /\ \E size \in FileSizes, num_tcp \in 0..MaxWorkers, num_udp \in 0..MaxWorkers :
          /\ num_tcp + num_udp \in 1..MaxWorkers
          /\ file_size' = size
          /\ tcp_results' = [i \in 1..num_tcp |-> NoResult]
          /\ udp_results' = [i \in 1..num_udp |-> NoResult]
          /\ tcpw' = [i \in 1..num_tcp |-> NewTcpWorker]
          /\ udpw' = [i \in 1..num_udp |-> NewUdpWorker]
          /\ conn' = [i \in 1..num_tcp |-> NoConn]
    /\ cpc' = "join"
    /\ seen' = <<>>
    /\ retries' = 0
    /\ UNCHANGED <<server_ip, server_udp_port, server_tcp_port, net, backlog, serverMain,
                   bpc, udp_threads, tcp_threads, budgets>>

\* int(input(...)) raises ValueError: back to listening
ClientInputInvalid ==
    /\ cpc = "input"
    /\ cpc' = "listen"
    /\ seen' = <<>>
    /\ retries' = 0
    /\ server_ip' = NoHost
    /\ server_udp_port' = None
    /\ server_tcp_port' = None
    /\ UNCHANGED <<file_size, runs, workers, net, conn, backlog, serverMain, bpc,
                   udp_threads, tcp_threads, budgets>>

TcpTerminated(i) == tcpw[i].pc \in {"done", "crashed"}
UdpTerminated(i) == udpw[i].pc \in {"done", "crashed"}
AllJoined ==
    /\ \A i \in 1..Len(tcpw) : TcpTerminated(i)
    /\ \A i \in 1..Len(udpw) : UdpTerminated(i)

\* every join has returned: the results are unpacked and printed, and main goes
\* back to listening; unpacking a slot that is still None raises TypeError
ClientReport ==
    /\ cpc = "join"
    /\ AllJoined
    /\ IF \/ \E i \in 1..Len(tcp_results) : tcp_results[i] = NoResult
          \/ \E i \in 1..Len(udp_results) : udp_results[i] = NoResult
       THEN cpc' = "crashed"
       ELSE cpc' = "listen"
    /\ server_ip' = NoHost
    /\ server_udp_port' = None
    /\ server_tcp_port' = None
    /\ UNCHANGED <<seen, retries, file_size, runs, workers, net, conn, backlog, serverMain, bpc,
                   udp_threads, tcp_threads, budgets>>

\* ------------------------------------------------------------- TCP worker
\* results_list[idx] = ...: the slot worker idx writes
ResultSlotFirst(i) == 1

ResultSlot(i) == i

Durations == 0..MaxDuration

\* the worker leaves its try block with `total` bytes: the socket is closed,
\* duration and speed are computed and the result is stored
TcpFinish(i, total, duration, fail) ==
    /\ conn' = [conn EXCEPT ![i].cli = IF @ = "none" THEN @ ELSE "closed",
                            ![i].failed = @ \/ fail]
    /\ IF Raises(SpeedBps(total, duration))
       THEN /\ tcpw' = [tcpw EXCEPT ![i] = [pc |-> "crashed", total_received |-> total]]
            /\ UNCHANGED tcp_results
       ELSE /\ tcpw' = [tcpw EXCEPT ![i] = [pc |-> "done", total_received |-> total]]
            /\ tcp_results' = [tcp_results EXCEPT ![ResultSlot(i)] =
                                   <<duration, SpeedBps(total, duration), total>>]

\* whether a server listens where the client connects to
Listening == spc # "stopped" /\ server_ip = ServerHost /\ server_tcp_port = tcp_port

\* s.connect(...) succeeds: the connection waits in the listen backlog
TcpWorkerConnect ==
    /\ \E i \in 1..Len(tcpw) :
          /\ tcpw[i].pc = "connect"
          /\ Listening
          /\ tcpw' = [tcpw EXCEPT ![i].pc = "request"]
          /\ conn' = [conn EXCEPT ![i].cli = "open", ![i].srv = "backlog"]
          /\ backlog' = Append(backlog, i)
    /\ UNCHANGED <<clientMain, udpw, tcp_results, udp_results, net, serverMain, bpc,
                   udp_threads, tcp_threads, budgets>>

\* s.connect(...) raises: nobody listens there
TcpWorkerConnectRefused ==
    /\ \E i \in 1..Len(tcpw), duration \in Durations :
          /\ tcpw[i].pc = "connect"
          /\ ~Listening
          /\ TcpFinish(i, 0, duration, TRUE)
    /\ UNCHANGED <<clientMain, udpw, udp_results, net, backlog, serverMain, bpc,
                   udp_threads, tcp_threads, budgets>>

\* s.sendall(request_str.encode()), then the first test of the receive loop
TcpWorkerRequest ==
    /\ \E i \in 1..Len(tcpw), duration \in Durations :
          /\ tcpw[i].pc = "request"
          /\ IF conn[i].srv = "closed"
             THEN \* the responder has given up: the connection is reset
                  TcpFinish(i, 0, duration, TRUE)
             ELSE IF 0 < file_size
             THEN /\ tcpw' = [tcpw EXCEPT ![i].pc = "recv"]
                  /\ conn' = [conn EXCEPT ![i].c2s = @ \o RequestStr(file_size)]
                  /\ UNCHANGED tcp_results
             ELSE /\ tcpw' = [tcpw EXCEPT ![i].pc = "closing"]
                  /\ conn' = [conn EXCEPT ![i].c2s = @ \o RequestStr(file_size)]
                  /\ UNCHANGED tcp_results
    /\ UNCHANGED <<clientMain, udpw, udp_results, net, backlog, serverMain, bpc,
                   udp_threads, tcp_threads, budgets>>

\* the receive loop is over: the with block closes the socket and the result
\* is stored
TcpWorkerClose ==
    /\ \E i \in 1..Len(tcpw), duration \in Durations :
          /\ tcpw[i].pc = "closing"
          /\ TcpFinish(i, tcpw[i].total_received, duration, FALSE)
    /\ UNCHANGED <<clientMain, udpw, udp_results, net, backlog, serverMain, bpc,
                   udp_threads, tcp_threads, budgets>>

\* the sizes one s.recv(4096) may return with `buffered` bytes in the stream
RecvSizes(buffered) ==
    {n \in 1..Min(buffered, TCP_RECV_SIZE) :
        n = Min(buffered, TCP_RECV_SIZE) \/ n % RecvGrain = 0}

\* data = s.recv(4096) returns bytes; the loop test follows
TcpWorkerRecv ==
    /\ \E i \in 1..Len(tcpw) :
          /\ tcpw[i].pc = "recv"
          /\ \E n \in RecvSizes(conn[i].s2c) :
                /\ conn' = [conn EXCEPT ![i].s2c = @ - n]
                /\ tcpw' = [tcpw EXCEPT
                              ![i].total_received = @ + n,
                              ![i].pc = IF tcpw[i].total_received + n < file_size
                                        THEN "recv" ELSE "closing"]
    /\ UNCHANGED <<clientMain, udpw, tcp_results, udp_results, net, backlog, serverMain,
                   bpc, udp_threads, tcp_threads, budgets>>

\* s.recv(4096) returns b"": the server closed and nothing is left to read
TcpWorkerEof ==
    /\ \E i \in 1..Len(tcpw) :
          /\ tcpw[i].pc = "recv"
          /\ conn[i].s2c = 0
          /\ conn[i].srv = "closed"
          /\ tcpw' = [tcpw EXCEPT ![i].pc = "closing"]
    /\ UNCHANGED <<clientMain, udpw, tcp_results, udp_results, net, conn, backlog,
                   serverMain, bpc, udp_threads, tcp_threads, budgets>>

\* sendall or recv raises: the error is printed, the result is stored
TcpWorkerFail ==
    /\ events < MaxEvents
    /\ events' = events + 1
    /\ \E i \in 1..Len(tcpw), duration \in Durations :
          /\ tcpw[i].pc \in {"request", "recv"}
          /\ TcpFinish(i, tcpw[i].total_received, duration, TRUE)
    /\ UNCHANGED <<clientMain, udpw, udp_results, net, backlog, serverMain, bpc,
                   udp_threads, tcp_threads>>

\* ------------------------------------------------------------- UDP worker
\* struct.pack("!Q", n) raises struct.error outside 0 .. 2^64 - 1 (the file
\* sizes of the model are far below 2^64)
FitsUnsigned64(n) == n >= 0

\* the worker leaves its receive loop: the socket is closed, the figures are
\* computed and the result is stored
UdpFinish(i, duration, why) ==
    LET w == udpw[i]
        total == IF w.total_segments = None THEN 0 ELSE w.total_segments
        speed == SpeedBps(w.total_bytes_received, duration)
        pct == SuccessPercentage(Cardinality(w.received_segments), total)
    IN  /\ net' = {d \in net : ~ToWorker(d, i)}
        /\ IF Raises(speed) \/ Raises(pct)
           THEN /\ udpw' = [udpw EXCEPT ![i].pc = "crashed", ![i].exit = why]
                /\ UNCHANGED udp_results
           ELSE /\ udpw' = [udpw EXCEPT ![i].pc = "done", ![i].exit = why]
                /\ udp_results' = [udp_results EXCEPT ![ResultSlot(i)] =
                                      <<duration, speed, w.total_bytes_received, pct>>]

\* the socket is made, the request is packed and sent
UdpWorkerStart ==
    /\ \E i \in 1..Len(udpw) :
          /\ udpw[i].pc = "start"
          /\ IF FitsUnsigned64(file_size)
             THEN /\ udpw' = [udpw EXCEPT ![i].pc = "recv"]
                  /\ net' = Sent(Datagram(WorkerAddr(i), Addr(server_ip, server_udp_port),
                                          PackRequest(file_size), i))
             ELSE \* struct.error, outside any try: the thread dies
                  /\ udpw' = [udpw EXCEPT ![i].pc = "crashed", ![i].exit = "struct.error"]
                  /\ net' = net
    /\ UNCHANGED <<clientMain, tcpw, tcp_results, udp_results, conn, backlog, serverMain,
                   bpc, udp_threads, tcp_threads, budgets>>

\* s.sendto raises: the result is (0, 0, 0, 0)
UdpWorkerSendFail ==
    /\ events < MaxEvents
    /\ events' = events + 1
    /\ \E i \in 1..Len(udpw) :
          /\ udpw[i].pc = "start"
          /\ FitsUnsigned64(file_size)
          /\ udpw' = [udpw EXCEPT ![i].pc = "done", ![i].exit = "sendfail"]
          /\ udp_results' = [udp_results EXCEPT ![ResultSlot(i)] = <<0, <<0, 1>>, 0, <<0, 1>>>>]
          /\ net' = {d \in net : ~ToWorker(d, i)}
    /\ UNCHANGED <<clientMain, tcpw, tcp_results, conn, backlog, serverMain, bpc,
                   udp_threads, tcp_threads>>

\* s.recvfrom(65535) returns a datagram
WorkerArrivals(i) ==
    Arrivals({e \in net : ToWorker(e, i)}, ForeignToWorker, WorkerAddr(i))

UdpWorkerRecvOf(i, a) ==
    /\ \E duration \in Durations :
          /\ udpw[i].pc = "recv"
          /\ events' = EventsAfter(a)
          /\ LET h == PayloadHandle(a.d.data) IN
             CASE h.kind = "continue" ->
                    /\ duration = 0
                    /\ net' = AfterArrival(a)
                    /\ UNCHANGED <<udpw, udp_results>>
               [] h.kind = "accept" ->
                    /\ duration = 0
                    /\ net' = AfterArrival(a)
                    /\ udpw' = [udpw EXCEPT
                          ![i].total_bytes_received = @ + h.len,
                          ![i].total_segments = IF @ = None THEN h.total_seg ELSE @,
                          ![i].received_segments = @ \cup {h.current_seg},
                          ![i].accepted = @ \cup {a.d},
                          ![i].first = IF @ = <<>> THEN <<a.d>> ELSE @]
                    /\ UNCHANGED udp_results
               [] h.kind = "raise" ->
                    \* struct.error is caught by `except Exception`: break
                    UdpFinish(i, duration, "error")
    /\ UNCHANGED <<clientMain, tcpw, tcp_results, conn, backlog, serverMain, bpc,
                   udp_threads, tcp_threads>>

UdpWorkerRecv == \E i \in 1..Len(udpw) : \E a \in WorkerArrivals(i) : UdpWorkerRecvOf(i, a)

\* s.recvfrom raises socket.timeout: no data for 1 second => transfer done
UdpWorkerTimeout ==
    /\ \E i \in 1..Len(udpw), duration \in Durations :
          /\ udpw[i].pc = "recv"
          /\ UdpFinish(i, duration, "timeout")
    /\ UNCHANGED <<clientMain, tcpw, tcp_results, conn, backlog, serverMain, bpc,
                   udp_threads, tcp_threads, budgets>>

\* s.recvfrom raises another exception: break
UdpWorkerRecvFail ==
    /\ events < MaxEvents
    /\ events' = events + 1
    /\ \E i \in 1..Len(udpw), duration \in Durations :
          /\ udpw[i].pc = "recv"
          /\ UdpFinish(i, duration, "error")
    /\ UNCHANGED <<clientMain, tcpw, tcp_results, conn, backlog, serverMain, bpc,
                   udp_threads, tcp_threads>>

\* ------------------------------------------------------ request dispatcher
\* the sockets main() itself receives on, accepts on and closes
MainSockets == {"udp_sock", "tcp_sock"}

\* the thread handle_udp_request(udp_sock, addr, file_size) as it starts: the
\* segment count is computed; with no segment to send it is finished at once
NewUdpThread(addr, size, owner) ==
    [server_udp_socket |-> "udp_sock",
     client_address |-> addr, file_size |-> size, total_segments |-> TotalSegments(size),
     seg_idx |-> 0, pc |-> IF TotalSegments(size) > 0 THEN "send" ELSE "done",
     failed |-> FALSE, sent |-> <<>>, owner |-> owner]

\* udp_sock.recvfrom(1024) returns a datagram
ServerArrivals ==
    Arrivals({e \in net : ToServer(e)}, ForeignToServer, Addr(ServerHost, udp_port))

DispatchUdpRecvOf(a) ==
    /\ spc = "udp"
    /\    /\ events' = EventsAfter(a)
          /\ LET h == RequestHandle(a.d.data) IN
             CASE h.kind = "continue" ->
                    /\ net' = AfterArrival(a)
                    /\ UNCHANGED <<spc, stop_event, server_exc, udp_threads>>
               [] h.kind = "spawn" ->
                    /\ net' = AfterArrival(a)
                    /\ udp_threads' = Append(udp_threads,
                                             NewUdpThread(a.d.src, h.file_size, a.d.owner))
                    /\ spc' = "tcp"
                    /\ UNCHANGED <<stop_event, server_exc>>
               [] h.kind = "raise" ->
                    \* struct.error leaves the loop: the finally block runs
                    /\ spc' = "finally"
                    /\ stop_event' = TRUE
                    /\ server_exc' = "struct.error"
                    /\ net' = AfterArrival(a)
                    /\ UNCHANGED udp_threads
    /\ UNCHANGED <<clientMain, workers, conn, backlog, udp_port, tcp_port, late_offers, bpc,
                   tcp_threads>>

DispatchUdpRecv == \E a \in ServerArrivals : DispatchUdpRecvOf(a)

\* udp_sock.recvfrom raises socket.timeout after 1 second: pass
DispatchUdpTimeout ==
    /\ spc = "udp"
    /\ spc' = "tcp"
    /\ UNCHANGED <<clientMain, workers, net, conn, backlog, udp_port, tcp_port, stop_event,
                   server_exc, late_offers, bpc, udp_threads, tcp_threads, budgets>>

NewTcpThread(c) ==
    [conn |-> c, pc |-> "read", data |-> <<>>, file_size |-> None, bytes_sent |-> 0,
     outcome |-> "",
     \* seconds spent in the current conn_socket.recv, and since the accept
     idle |-> 0, age |-> 0]

\* tcp_sock.accept() returns a connection: a handler thread is started
DispatchTcpAccept ==
    /\ spc = "tcp"
    /\ backlog # <<>>
    /\ tcp_threads' = Append(tcp_threads, NewTcpThread(Head(backlog)))
    /\ conn' = [conn EXCEPT ![Head(backlog)].srv = "open"]
    /\ backlog' = Tail(backlog)
    /\ spc' = "udp"
    /\ UNCHANGED <<clientMain, workers, net, udp_port, tcp_port, stop_event, server_exc,
                   late_offers, bpc, udp_threads, budgets>>

\* tcp_sock.accept() raises socket.timeout after 0.5 second: pass
DispatchTcpTimeout ==
    /\ spc = "tcp"
    /\ backlog = <<>>
    /\ spc' = "udp"
    /\ UNCHANGED <<clientMain, workers, net, conn, backlog, udp_port, tcp_port, stop_event,
                   server_exc, late_offers, bpc, udp_threads, tcp_threads, budgets>>

\* --------------------------------------------------------- server shutdown
\* an exception exc leaves the `while True` of main: the finally block starts
\* with stop_event.set()
ServerLeave(exc) ==
    /\ spc' = "finally"
    /\ stop_event' = TRUE
    /\ server_exc' = exc

\* the external shutdown signal: KeyboardInterrupt is raised in main while it
\* waits in recvfrom or accept
ServerInterrupt ==
    /\ spc \in {"udp", "tcp"}
    /\ ServerLeave("KeyboardInterrupt")
    /\ UNCHANGED <<clientMain, workers, net, conn, backlog, udp_port, tcp_port, late_offers,
                   bpc, udp_threads, tcp_threads, budgets>>

\* udp_sock.recvfrom raises an OSError other than socket.timeout: only
\* socket.timeout is caught inside the loop
DispatchUdpError ==
    /\ spc = "udp"
    /\ events < MaxEvents
    /\ events' = events + 1
    /\ ServerLeave("OSError")
    /\ UNCHANGED <<clientMain, workers, net, conn, backlog, udp_port, tcp_port, late_offers,
                   bpc, udp_threads, tcp_threads>>

\* tcp_sock.accept raises an OSError other than socket.timeout
DispatchTcpError ==
    /\ spc = "tcp"
    /\ events < MaxEvents
    /\ events' = events + 1
    /\ ServerLeave("OSError")
    /\ UNCHANGED <<clientMain, workers, net, conn, backlog, udp_port, tcp_port, late_offers,
                   bpc, udp_threads, tcp_threads>>

\* the rest of the finally block: bcast_thread.join(timeout=1.0) returns, both
\* sockets are closed, main returns (or the exception goes on) and the process
\* ends, and with it every daemon thread that still runs and every connection
ServerFinally ==
    /\ spc = "finally"
    /\ spc' = "stopped"
    /\ bpc' = IF bpc = "stopped" THEN "stopped" ELSE "killed"
    /\ udp_threads' = [k \in 1..Len(udp_threads) |->
                          IF udp_threads[k].pc = "send"
                          THEN [udp_threads[k] EXCEPT !.pc = "killed"]
                          ELSE udp_threads[k]]
    /\ tcp_threads' = [k \in 1..Len(tcp_threads) |->
                          IF tcp_threads[k].pc \in {"read", "send"}
                          THEN [tcp_threads[k] EXCEPT !.pc = "killed"]
                          ELSE tcp_threads[k]]
    /\ conn' = [i \in 1..Len(conn) |->
                   IF conn[i].srv \in {"backlog", "open"}
                   THEN [conn[i] EXCEPT !.srv = "closed", !.failed = TRUE]
                   ELSE conn[i]]
    /\ backlog' = <<>>
    /\ net' = {e \in net : ~ToServer(e)}
    /\ UNCHANGED <<clientMain, workers, udp_port, tcp_port, stop_event, server_exc,
                   late_offers, budgets>>

\* -------------------------------------------------- UDP transfer responder
\* one turn of the loop of handle_udp_request: segment seg_idx is packed and
\* sent to the client address
UdpRespondSend ==
    /\ \E k \in 1..Len(udp_threads) :
          LET t == udp_threads[k]
              packet == PackPayload(t.total_segments, t.seg_idx,
                                    PayloadSize(t.file_size, t.seg_idx))
          IN  /\ t.pc = "send"
              /\ net' = Sent(Datagram(Addr(ServerHost, udp_port), t.client_address,
                                      packet, t.owner))
              /\ udp_threads' = [udp_threads EXCEPT
                    ![k].sent = Append(@, packet),
                    ![k].seg_idx = @ + 1,
                    ![k].pc = IF t.seg_idx + 1 < t.total_segments THEN "send" ELSE "done"]
    /\ UNCHANGED <<clientMain, workers, conn, backlog, serverMain, bpc, tcp_threads,
                   budgets>>

\* server_udp_socket.sendto raises: the remaining segments are given up
UdpRespondFail ==
    /\ events < MaxEvents
    /\ events' = events + 1
    /\ \E k \in 1..Len(udp_threads) :
          /\ udp_threads[k].pc = "send"
          /\ udp_threads' = [udp_threads EXCEPT ![k].pc = "done", ![k].failed = TRUE]
    /\ UNCHANGED <<clientMain, workers, net, conn, backlog, serverMain, bpc, tcp_threads>>

\* -------------------------------------------------- TCP transfer responder
\* the handler returns: `finally: conn_socket.close()`
TcpClosed(k, how, fail) ==
    conn' = [conn EXCEPT ![tcp_threads[k].conn].srv = "closed",
                         ![tcp_threads[k].conn].failed = @ \/ fail]

\* the sizes one conn_socket.recv(1024) may return with `buffered` characters
LineSizes(buffered) ==
    {n \in 1..Min(buffered, CHUNK_SIZE) :
        n = Min(buffered, CHUNK_SIZE) \/ n % LineGrain = 0}

\* conn_socket.recv(1024) returns n characters of the request; with a newline
\* read, the line is parsed and the first test of the send loop follows
TcpHandlerRead ==
    /\ \E k \in 1..Len(tcp_threads) :
          LET t == tcp_threads[k]
              c == conn[t.conn]
          IN  /\ t.pc = "read"
              /\ \E n \in LineSizes(Len(c.c2s)) :
                    LET data == t.data \o SubSeq(c.c2s, 1, n)
                        rest == SubSeq(c.c2s, n + 1, Len(c.c2s))
                        size == ParseInt(data)
                    IN  IF ~HasNewline(data)
                        THEN /\ tcp_threads' = [tcp_threads EXCEPT ![k].data = data,
                                                                   ![k].idle = 0]
                             /\ conn' = [conn EXCEPT ![t.conn].c2s = rest]
                        ELSE IF ~size.ok
                        THEN /\ tcp_threads' = [tcp_threads EXCEPT
                                   ![k].data = data, ![k].idle = 0, ![k].pc = "done",
                                   ![k].outcome = "invalid"]
                             /\ conn' = [conn EXCEPT ![t.conn].c2s = rest,
                                                     ![t.conn].srv = "closed"]
                        ELSE IF 0 < size.val
                        THEN /\ tcp_threads' = [tcp_threads EXCEPT
                                   ![k].data = data, ![k].idle = 0, ![k].pc = "send",
                                   ![k].file_size = size.val]
                             /\ conn' = [conn EXCEPT ![t.conn].c2s = rest]
                        ELSE /\ tcp_threads' = [tcp_threads EXCEPT
                                   ![k].data = data, ![k].idle = 0, ![k].pc = "done",
                                   ![k].file_size = size.val, ![k].outcome = "sent"]
                             /\ conn' = [conn EXCEPT ![t.conn].c2s = rest,
                                                     ![t.conn].srv = "closed"]
    /\ UNCHANGED <<clientMain, workers, net, backlog, serverMain, bpc, udp_threads,
                   budgets>>

\* conn_socket.recv(1024) returns b"": the client closed without a newline
TcpHandlerReadEof ==
    /\ \E k \in 1..Len(tcp_threads) :
          /\ tcp_threads[k].pc = "read"
          /\ conn[tcp_threads[k].conn].c2s = <<>>
          /\ conn[tcp_threads[k].conn].cli = "closed"
          /\ tcp_threads' = [tcp_threads EXCEPT ![k].pc = "done",
                                                ![k].outcome = "disconnected"]
          /\ TcpClosed(k, "disconnected", FALSE)
    /\ UNCHANGED <<clientMain, workers, net, backlog, serverMain, bpc, udp_threads,
                   budgets>>

\* conn_socket.recv(1024) raises socket.timeout: nothing came for 5 seconds
TcpHandlerTimeout ==
    /\ events < MaxEvents
    /\ events' = events + 1
    /\ \E k \in 1..Len(tcp_threads) :
          /\ tcp_threads[k].pc = "read"
          /\ conn[tcp_threads[k].conn].c2s = <<>>
          /\ tcp_threads' = [tcp_threads EXCEPT ![k].pc = "done", ![k].outcome = "error"]
          /\ TcpClosed(k, "error", TRUE)
    /\ UNCHANGED <<clientMain, workers, net, backlog, serverMain, bpc, udp_threads>>

\* conn_socket.recv(1024) has waited CONN_TIMEOUT seconds with nothing to
\* read: socket.timeout, caught by `except Exception`, and the socket is closed
TcpHandlerTimedOut ==
    /\ \E k \in 1..Len(tcp_threads) :
          /\ tcp_threads[k].pc = "read"
          /\ conn[tcp_threads[k].conn].c2s = <<>>
          /\ conn[tcp_threads[k].conn].cli = "open"
          /\ tcp_threads[k].idle = CONN_TIMEOUT
          /\ tcp_threads' = [tcp_threads EXCEPT ![k].pc = "done", ![k].outcome = "error"]
          /\ TcpClosed(k, "error", TRUE)
    /\ UNCHANGED <<clientMain, workers, net, backlog, serverMain, bpc, udp_threads,
                   budgets>>

\* one second passes while every reading responder waits in its recv with
\* nothing to read, none of them due to time out
Tick ==
    /\ \E k \in 1..Len(tcp_threads) : tcp_threads[k].pc = "read"
    /\ \A k \in 1..Len(tcp_threads) :
          tcp_threads[k].pc = "read" =>
             /\ conn[tcp_threads[k].conn].c2s = <<>>
             /\ conn[tcp_threads[k].conn].cli = "open"
             /\ tcp_threads[k].idle < CONN_TIMEOUT
             /\ tcp_threads[k].age < MaxAge
    /\ tcp_threads' = [k \in 1..Len(tcp_threads) |->
                          IF tcp_threads[k].pc = "read"
                          THEN [tcp_threads[k] EXCEPT !.idle = @ + 1, !.age = @ + 1]
                          ELSE tcp_threads[k]]
    /\ UNCHANGED <<clientMain, workers, net, conn, backlog, serverMain, bpc, udp_threads,
                   budgets>>

\* what a TCP client that is not tcp_download_worker may write
RawChars == {"7", "x", "-", "\n"}

\* such a client writes one more character on connection 1
RawClientSend ==
    /\ conn[1].cli = "open"
    /\ conn[1].srv = "open"
    /\ \E k \in 1..Len(tcp_threads) :
          /\ tcp_threads[k].conn = 1
          /\ Len(tcp_threads[k].data) + Len(conn[1].c2s) < MaxRawBytes
    /\ \E c \in RawChars : conn' = [conn EXCEPT ![1].c2s = Append(@, c)]
    /\ UNCHANGED <<clientMain, workers, net, backlog, serverMain, bpc, udp_threads,
                   tcp_threads, budgets>>

\* such a client closes connection 1
RawClientClose ==
    /\ conn[1].cli = "open"
    /\ conn' = [conn EXCEPT ![1].cli = "closed"]
    /\ UNCHANGED <<clientMain, workers, net, backlog, serverMain, bpc, udp_threads,
                   tcp_threads, budgets>>

\* one turn of the send loop: conn_socket.sendall(dummy_chunk[:to_send]); the
\* bytes reach the client's stream unless the client has closed
TcpHandlerSend ==
    /\ \E k \in 1..Len(tcp_threads) :
          LET t == tcp_threads[k]
              to_send == ToSend(t.file_size, t.bytes_sent)
              over == ~(t.bytes_sent + to_send < t.file_size)
          IN  /\ t.pc = "send"
              /\ tcp_threads' = [tcp_threads EXCEPT
                    ![k].bytes_sent = @ + to_send,
                    ![k].pc = IF over THEN "done" ELSE "send",
                    ![k].outcome = IF over THEN "sent" ELSE @]
              /\ conn' = [conn EXCEPT
                    ![t.conn].s2c = IF conn[t.conn].cli = "open" THEN @ + to_send ELSE @,
                    ![t.conn].srv = IF over THEN "closed" ELSE @]
    /\ UNCHANGED <<clientMain, workers, net, backlog, serverMain, bpc, udp_threads,
                   budgets>>

\* conn_socket.sendall raises, the client having closed: the handler gives up
TcpHandlerSendReset ==
    /\ \E k \in 1..Len(tcp_threads) :
          /\ tcp_threads[k].pc = "send"
          /\ conn[tcp_threads[k].conn].cli = "closed"
          /\ tcp_threads' = [tcp_threads EXCEPT ![k].pc = "done", ![k].outcome = "error"]
          /\ TcpClosed(k, "error", TRUE)
    /\ UNCHANGED <<clientMain, workers, net, backlog, serverMain, bpc, udp_threads,
                   budgets>>

\* conn_socket.sendall raises for another reason
TcpHandlerSendFail ==
    /\ events < MaxEvents
    /\ events' = events + 1
    /\ \E k \in 1..Len(tcp_threads) :
          /\ tcp_threads[k].pc = "send"
          /\ tcp_threads' = [tcp_threads EXCEPT ![k].pc = "done", ![k].outcome = "error"]
          /\ TcpClosed(k, "error", TRUE)
    /\ UNCHANGED <<clientMain, workers, net, backlog, serverMain, bpc, udp_threads>>

\* ------------------------------------------------------- the whole system
\* server main has started the broadcaster and bound its sockets; client main
\* has bound the discovery socket
Init ==
    /\ cpc = "listen"
    /\ seen = <<>>
    /\ retries = 0
    /\ server_ip = NoHost
    /\ server_udp_port = None
    /\ server_tcp_port = None
    /\ file_size = 0
    /\ runs = 0
    /\ tcpw = <<>>
    /\ udpw = <<>>
    /\ tcp_results = <<>>
    /\ udp_results = <<>>
    /\ net = {}
    /\ conn = <<>>
    /\ backlog = <<>>
    /\ spc = "udp"
    /\ udp_port = DEFAULT_UDP_PORT
    /\ tcp_port = DEFAULT_TCP_PORT
    /\ stop_event = FALSE
    /\ server_exc = ""
    /\ late_offers = 0
    /\ bpc = "test"
    /\ udp_threads = <<>>
    /\ tcp_threads = <<>>
    /\ events = 0

Next ==
    \/ BroadcastTest \/ BroadcastSend \/ BroadcastSendFail
    \/ ClientDiscoveryRecv \/ ClientDiscoveryTimeout \/ ClientDiscoveryError
    \/ ClientInput \/ ClientInputInvalid \/ ClientReport
    \/ TcpWorkerConnect \/ TcpWorkerConnectRefused \/ TcpWorkerRequest \/ TcpWorkerClose
    \/ TcpWorkerRecv \/ TcpWorkerEof \/ TcpWorkerFail
    \/ UdpWorkerStart \/ UdpWorkerSendFail \/ UdpWorkerRecv \/ UdpWorkerTimeout
    \/ UdpWorkerRecvFail
    \/ DispatchUdpRecv \/ DispatchUdpTimeout \/ DispatchTcpAccept \/ DispatchTcpTimeout
    \/ DispatchUdpError \/ DispatchTcpError \/ ServerInterrupt \/ ServerFinally
    \/ UdpRespondSend \/ UdpRespondFail
    \/ TcpHandlerRead \/ TcpHandlerReadEof \/ TcpHandlerTimeout \/ TcpHandlerSend
    \/ TcpHandlerSendReset \/ TcpHandlerSendFail

Spec == Init /\ [][Next]_vars

\* --------------------------------------------------- one transfer at a time
\* The state client main and server main are in once the client has found the
\* server, read its three inputs and started its worker threads.
InitRun(size, num_tcp, num_udp) ==
    /\ cpc = "join"
    /\ seen = <<>>
    /\ retries = 0
    /\ server_ip = ServerHost
    /\ server_udp_port = DEFAULT_UDP_PORT
    /\ server_tcp_port = DEFAULT_TCP_PORT
    /\ file_size = size
    /\ runs = 1
    /\ tcpw = [i \in 1..num_tcp |-> NewTcpWorker]
    /\ udpw = [i \in 1..num_udp |-> NewUdpWorker]
    /\ tcp_results = [i \in 1..num_tcp |-> NoResult]
    /\ udp_results = [i \in 1..num_udp |-> NoResult]
    /\ net = {}
    /\ conn = [i \in 1..num_tcp |-> NoConn]
    /\ backlog = <<>>
    /\ spc = "udp"
    /\ udp_port = DEFAULT_UDP_PORT
    /\ tcp_port = DEFAULT_TCP_PORT
    /\ stop_event = FALSE
    /\ server_exc = ""
    /\ late_offers = 0
    /\ bpc = "test"
    /\ udp_threads = <<>>
    /\ tcp_threads = <<>>
    /\ events = 0

\* one TCP worker and the server: the file sizes cover no chunk, one partial
\* chunk, one whole chunk, several chunks, and more than one full read
TcpFileSizes == {0, 1, CHUNK_SIZE, BigFile, TCP_RECV_SIZE + CHUNK_SIZE + 1}

InitTcp == \E size \in TcpFileSizes : InitRun(size, 1, 0)

NextTcp ==
    \/ TcpWorkerConnect \/ TcpWorkerRequest \/ TcpWorkerClose
    \/ TcpWorkerRecv \/ TcpWorkerEof \/ TcpWorkerFail
    \/ DispatchUdpTimeout \/ DispatchTcpAccept \/ DispatchTcpTimeout
    \/ TcpHandlerRead \/ TcpHandlerReadEof \/ TcpHandlerTimeout \/ TcpHandlerSend
    \/ TcpHandlerSendReset \/ TcpHandlerSendFail

SpecTcp == InitTcp /\ [][NextTcp]_vars

\* one UDP worker and the server, over a network that loses, duplicates and
\* reorders datagrams
UdpFileSizes == {0, 1, CHUNK_SIZE, BigFile}

InitUdp == \E size \in UdpFileSizes : InitRun(size, 0, 1)

NextUdp ==
    \/ UdpWorkerStart \/ UdpWorkerSendFail \/ UdpWorkerRecv \/ UdpWorkerTimeout
    \/ UdpWorkerRecvFail
    \/ DispatchUdpRecv \/ DispatchUdpTimeout \/ DispatchTcpTimeout
    \/ UdpRespondSend \/ UdpRespondFail
    \/ NetLose

SpecUdp == InitUdp /\ [][NextUdp]_vars

\* one run of handle_udp_request, for every file size up to MaxFileSize: the
\* state once the worker's request has been received and the thread started
InitResponder ==
    \E size \in 0..MaxFileSize :
        /\ cpc = "join"
        /\ seen = <<>>
        /\ retries = 0
        /\ server_ip = ServerHost
        /\ server_udp_port = DEFAULT_UDP_PORT
        /\ server_tcp_port = DEFAULT_TCP_PORT
        /\ file_size = size
        /\ runs = 1
        /\ tcpw = <<>>
        /\ udpw = <<[NewUdpWorker EXCEPT !.pc = "recv"]>>
        /\ tcp_results = <<>>
        /\ udp_results = <<NoResult>>
        /\ net = {}
        /\ conn = <<>>
        /\ backlog = <<>>
        /\ spc = "tcp"
        /\ udp_port = DEFAULT_UDP_PORT
        /\ tcp_port = DEFAULT_TCP_PORT
        /\ stop_event = FALSE
        /\ server_exc = ""
        /\ late_offers = 0
        /\ bpc = "test"
        /\ udp_threads = <<NewUdpThread(WorkerAddr(1), size, 1)>>
        /\ tcp_threads = <<>>
        /\ events = 0

NextResponder == UdpRespondSend \/ UdpRespondFail

SpecResponder == InitResponder /\ [][NextResponder]_vars

\* discovery alone: the broadcaster, the network and the discovery listener
NextDiscovery ==
    \/ BroadcastTest \/ BroadcastSend \/ BroadcastSendFail
    \/ NetLose
    \/ ClientDiscoveryRecv \/ ClientDiscoveryTimeout \/ ClientDiscoveryError
    \/ ClientInputInvalid

SpecDiscovery == Init /\ [][NextDiscovery]_vars

\* the broadcaster and the discovery listener while the server runs and shuts
\* down
NextBroadcast ==
    \/ NextDiscovery
    \/ DispatchUdpTimeout \/ DispatchTcpTimeout
    \/ DispatchUdpError \/ DispatchTcpError \/ ServerInterrupt \/ ServerFinally

SpecBroadcast == Init /\ [][NextBroadcast]_vars

\* one accepted connection of a TCP client that is not the worker: the state
\* once main has accepted it and started handle_tcp_connection
InitRawTcp ==
    /\ cpc = "listen"
    /\ seen = <<>>
    /\ retries = 0
    /\ server_ip = NoHost
    /\ server_udp_port = None
    /\ server_tcp_port = None
    /\ file_size = 0
    /\ runs = 0
    /\ tcpw = <<>>
    /\ udpw = <<>>
    /\ tcp_results = <<>>
    /\ udp_results = <<>>
    /\ net = {}
    /\ conn = <<[NoConn EXCEPT !.cli = "open", !.srv = "open"]>>
    /\ backlog = <<>>
    /\ spc = "udp"
    /\ udp_port = DEFAULT_UDP_PORT
    /\ tcp_port = DEFAULT_TCP_PORT
    /\ stop_event = FALSE
    /\ server_exc = ""
    /\ late_offers = 0
    /\ bpc = "test"
    /\ udp_threads = <<>>
    /\ tcp_threads = <<NewTcpThread(1)>>
    /\ events = 0

NextRawTcp ==
    \/ RawClientSend \/ RawClientClose \/ Tick
    \/ TcpHandlerRead \/ TcpHandlerReadEof \/ TcpHandlerTimedOut
    \/ TcpHandlerSend \/ TcpHandlerSendReset

SpecRawTcp == InitRawTcp /\ [][NextRawTcp]_vars

\* ------------------------------------------------- the dispatcher's polling
\* a datagram that is no request, as another host keeps sending them to the
\* server's UDP port
StreamDatagram ==
    Datagram(Addr(OtherHost, EphemeralPort(0)), Addr(ServerHost, DEFAULT_UDP_PORT),
             WrongMagic(PackRequest(1)), 0)

\* the next datagram of that stream is queued on the server's UDP socket
InvalidStream ==
    /\ Bound(StreamDatagram.dst)
    /\ StreamDatagram \notin net
    /\ net' = net \cup {StreamDatagram}
    /\ UNCHANGED <<clientMain, workers, conn, backlog, serverMain, bpc, udp_threads,
                   tcp_threads, budgets>>

\* recvfrom returns a datagram that was sent to the socket: a request that
\* starts a responder, or one that is dropped
DispatchUdpRecvRequest ==
    \E d \in net :
        /\ ToServer(d)
        /\ RequestHandle(d.data).kind = "spawn"
        /\ DispatchUdpRecvOf([d |-> d, how |-> "net"])

DispatchUdpRecvDropped ==
    \E d \in net :
        /\ ToServer(d)
        /\ RequestHandle(d.data).kind = "continue"
        /\ DispatchUdpRecvOf([d |-> d, how |-> "net"])

\* nothing is queued on the server's UDP socket: only then is the 1 second
\* timeout of recvfrom certain to come
NothingQueued == \A d \in net : ~ToServer(d)

InitDispatch == \E size \in {0, SmallFile} : InitRun(size, 1, 1)

NextDispatch ==
    \/ TcpWorkerConnect \/ TcpWorkerRequest \/ TcpWorkerRecv \/ TcpWorkerClose
    \/ UdpWorkerStart \/ UdpWorkerRecv \/ UdpWorkerTimeout
    \/ DispatchUdpRecv \/ DispatchUdpTimeout \/ DispatchTcpAccept \/ DispatchTcpTimeout
    \/ UdpRespondSend \/ TcpHandlerRead \/ TcpHandlerSend
    \/ InvalidStream

\* The dispatcher runs: a datagram in flight reaches the socket's queue and
\* is received by one of the recvfrom calls the loop keeps making (the queue
\* is first in, first out), recvfrom times out when nothing is queued, accept
\* returns a pending connection or times out.
SpecDispatch ==
    /\ InitDispatch
    /\ [][NextDispatch]_vars
    /\ SF_vars(DispatchUdpRecvRequest)
    /\ SF_vars(DispatchUdpRecvDropped)
    /\ WF_vars(DispatchUdpTimeout /\ NothingQueued)
    /\ WF_vars(DispatchTcpAccept)
    /\ WF_vars(DispatchTcpTimeout)

\* ------------------------------------------------------ one run of the pool
\* One TCP worker and one UDP worker, for every file size the client accepts,
\* with a server whose dispatcher and responders run to completion.
InitPool == \E size \in FileSizes : InitRun(size, 1, 1)

NextPool ==
    \/ TcpWorkerConnect \/ TcpWorkerRequest \/ TcpWorkerRecv \/ TcpWorkerClose
    \/ UdpWorkerStart \/ UdpWorkerRecv \/ UdpWorkerTimeout
    \/ DispatchUdpRecv \/ DispatchUdpTimeout \/ DispatchTcpAccept \/ DispatchTcpTimeout
    \/ UdpRespondSend \/ TcpHandlerRead \/ TcpHandlerSend
    \/ NetLose
    \/ ClientReport

\* Every thread that can take a step takes it: the workers, the dispatcher
\* (as in SpecDispatch), the responders, and main once join has returned. The
\* UDP worker's timeout comes when no datagram arrives for a second.
SpecPool ==
    /\ InitPool
    /\ [][NextPool]_vars
    /\ WF_vars(TcpWorkerConnect) /\ WF_vars(TcpWorkerRequest)
    /\ WF_vars(TcpWorkerRecv) /\ WF_vars(TcpWorkerClose)
    /\ WF_vars(UdpWorkerStart) /\ WF_vars(UdpWorkerTimeout)
    /\ SF_vars(DispatchUdpRecvRequest) /\ SF_vars(DispatchUdpRecvDropped)
    /\ WF_vars(DispatchUdpTimeout /\ NothingQueued)
    /\ WF_vars(DispatchTcpAccept) /\ WF_vars(DispatchTcpTimeout)
    /\ WF_vars(UdpRespondSend) /\ WF_vars(TcpHandlerRead) /\ WF_vars(TcpHandlerSend)
    /\ WF_vars(ClientReport)

\* ------------------------------------------- a UDP session, no duplication
\* s.recvfrom(65535) returns a datagram that was sent to the worker's socket
UdpWorkerRecvSent ==
    \E i \in 1..Len(udpw) : \E d \in net :
        ToWorker(d, i) /\ UdpWorkerRecvOf(i, [d |-> d, how |-> "net"])

\* one UDP worker and the server, over a network that loses and reorders
\* datagrams and delivers each of them at most once
NextUdpOnce ==
    \/ UdpWorkerStart \/ UdpWorkerRecvSent \/ UdpWorkerTimeout
    \/ DispatchUdpRecvRequest \/ DispatchUdpTimeout \/ DispatchTcpTimeout
    \/ UdpRespondSend
    \/ NetLose

SpecUdpOnce == InitUdp /\ [][NextUdpOnce]_vars

\* ================================================================== claims
\* what the claims read off a datagram, field by field
FieldAt(data, off, w) == UnpackBE([k \in 1..w |-> data.bytes[off + k]])
SegTotal(data) == FieldAt(data, 5, 8)
SegIndex(data) == FieldAt(data, 13, 8)
PayloadLen(data) == DataLen(data) - 21

\* ceil(a / b) for a >= 0, b > 0
CeilDiv(a, b) == CHOOSE q \in 0..a : q * b >= a /\ (q = 0 \/ (q - 1) * b < a)

RECURSIVE SumPayload(_)
SumPayload(packets) ==
    IF packets = <<>> THEN 0
    ELSE PayloadLen(packets[1]) + SumPayload(Tail(packets))

\* C1: a run of the UDP responder in which no send fails sends exactly
\* ceil(file_size / 1024) datagrams, each carrying that total, with the
\* segment indices 0, 1, ... in ascending order, each once; at any moment what
\* has been sent is a prefix of that sequence.
C1_ResponderSegments ==
    \A k \in 1..Len(udp_threads) :
        LET t == udp_threads[k]
            n == CeilDiv(t.file_size, CHUNK_SIZE)
        IN  /\ Len(t.sent) <= n
            /\ \A j \in 1..Len(t.sent) : SegTotal(t.sent[j]) = n /\ SegIndex(t.sent[j]) = j - 1
            /\ (t.pc = "done" /\ ~t.failed) => Len(t.sent) = n

\* a finished run for file_size = 1024: one segment, index 0, 1024 payload bytes
C1_Witness ==
    \E k \in 1..Len(udp_threads) :
        /\ udp_threads[k].file_size = 1024
        /\ udp_threads[k].pc = "done"
        /\ ~udp_threads[k].failed
        /\ Len(udp_threads[k].sent) = 1
        /\ SegIndex(udp_threads[k].sent[1]) = 0
        /\ PayloadLen(udp_threads[k].sent[1]) = 1024

\* C2: segment i of a request for file_size bytes carries
\* min(1024, file_size - i * 1024) payload bytes: between 1 and 1024, fewer
\* than 1024 only in the last segment, and file_size bytes over a whole run.
C2_PayloadLengths ==
    \A k \in 1..Len(udp_threads) :
        LET t == udp_threads[k]
            n == CeilDiv(t.file_size, CHUNK_SIZE)
        IN  /\ \A j \in 1..Len(t.sent) :
                 LET len == PayloadLen(t.sent[j])
                     left == t.file_size - (j - 1) * CHUNK_SIZE
                 IN  /\ len = (IF left < CHUNK_SIZE THEN left ELSE CHUNK_SIZE)
                     /\ len \in 1..CHUNK_SIZE
                     /\ len < CHUNK_SIZE => j = n
            /\ (t.pc = "done" /\ ~t.failed) => SumPayload(t.sent) = t.file_size

\* a finished run for file_size = 2500: 3 segments, the last of 452 bytes
C2_Witness ==
    \E k \in 1..Len(udp_threads) :
        /\ udp_threads[k].file_size = 2500
        /\ udp_threads[k].pc = "done"
        /\ ~udp_threads[k].failed
        /\ Len(udp_threads[k].sent) = 3
        /\ PayloadLen(udp_threads[k].sent[3]) = 452

\* C3: a TCP worker whose connection met no failure ends with exactly
\* file_size bytes received, whatever the interleaving of the responder's
\* chunked writes and the worker's reads; the worker never counts more than
\* file_size bytes and the responder never sends more.
C3_TcpExact ==
    /\ \A i \in 1..Len(tcpw) :
          /\ tcpw[i].total_received <= file_size
          /\ (tcpw[i].pc = "done" /\ ~conn[i].failed) =>
                /\ tcpw[i].total_received = file_size
                /\ tcp_results[i] # NoResult
                /\ tcp_results[i][3] = file_size
    /\ \A k \in 1..Len(tcp_threads) : tcp_threads[k].bytes_sent <= file_size

\* a worker that has received a file of several chunks, larger than one read
C3_Witness ==
    \E i \in 1..Len(tcpw) :
        /\ tcpw[i].pc = "done"
        /\ ~conn[i].failed
        /\ file_size > TCP_RECV_SIZE
        /\ tcpw[i].total_received = file_size

\* the bytes the TCP responders of connection i have sent
RECURSIVE SentOnConn(_, _)
SentOnConn(i, k) ==
    IF k = 0 THEN 0
    ELSE (IF tcp_threads[k].conn = i THEN tcp_threads[k].bytes_sent ELSE 0)
         + SentOnConn(i, k - 1)

\* a datagram the server sent in answer to the request of UDP worker i
AnswersWorker(d, i) ==
    /\ d.owner = i
    /\ d.dst = WorkerAddr(i)
    /\ d.src = Addr(ServerHost, udp_port)
    /\ \E k \in 1..Len(udp_threads) :
          /\ udp_threads[k].owner = i
          /\ udp_threads[k].client_address = WorkerAddr(i)
          /\ \E j \in 1..Len(udp_threads[k].sent) : udp_threads[k].sent[j] = d.data

C4_Slots ==
    /\ Len(tcp_results) = Len(tcpw)
    /\ Len(udp_results) = Len(udpw)
    /\ \A i \in 1..Len(tcpw) :
          /\ (tcp_results[i] # NoResult) <=> (tcpw[i].pc = "done")
          /\ tcp_results[i] # NoResult => tcp_results[i][3] = tcpw[i].total_received
          /\ tcpw[i].total_received + conn[i].s2c <= SentOnConn(i, Len(tcp_threads))
    /\ \A i \in 1..Len(udpw) :
          /\ (udp_results[i] # NoResult) <=> (udpw[i].pc = "done")
          /\ udp_results[i] # NoResult =>
                udp_results[i][3] = udpw[i].total_bytes_received
          /\ \A d \in udpw[i].accepted : AnswersWorker(d, i)
          /\ udpw[i].received_segments = {SegIndex(d.data) : d \in udpw[i].accepted}
          /\ udpw[i].accepted = {} => udpw[i].total_bytes_received = 0

\* a step that writes result slot i is the last step of worker i, and of no other
C4_Writes ==
    /\ \A i \in 1..Len(tcp_results) :
          (i \in 1..Len(tcp_results') /\ tcp_results'[i] # tcp_results[i]) =>
             /\ tcpw[i].pc # "done" /\ tcpw'[i].pc = "done"
             /\ \A j \in 1..Len(tcpw) : j # i => tcpw'[j] = tcpw[j] /\ tcp_results'[j] = tcp_results[j]
             /\ udpw' = udpw /\ udp_results' = udp_results
    /\ \A i \in 1..Len(udp_results) :
          (i \in 1..Len(udp_results') /\ udp_results'[i] # udp_results[i]) =>
             /\ udpw[i].pc # "done" /\ udpw'[i].pc = "done"
             /\ \A j \in 1..Len(udpw) : j # i => udpw'[j] = udpw[j] /\ udp_results'[j] = udp_results[j]
             /\ tcpw' = tcpw /\ tcp_results' = tcp_results

\* C4: N TCP workers and M UDP workers against one server give N + M results;
\* slot i of a transport is written only by worker i of that transport, once,
\* with that worker's own byte count, and what a worker counts is only what the
\* server sent on its own connection or to its own UDP address.
C4_IndependentResults == []C4_Slots /\ [][C4_Writes]_vars

\* two UDP workers, both finished, each with a segment of its own
C4_Witness ==
    /\ Len(udpw) = 2
    /\ \A i \in 1..2 :
          /\ udpw[i].pc = "done"
          /\ udpw[i].accepted # {}
          /\ udp_results[i] # NoResult
          /\ udp_results[i][3] = SmallFile

\* the datagrams the claim calls invalid for a receive site: too short, another
\* magic value, or another type byte
InvalidFor(data, minlen, type) ==
    \/ DataLen(data) < minlen
    \/ <<data.bytes[1], data.bytes[2], data.bytes[3], data.bytes[4]>> # MAGIC_COOKIE
    \/ data.bytes[5] # type

C5_Discards ==
    /\ \A a \in DiscoveryArrivals :
          (InvalidFor(a.d.data, 9, MSG_TYPE_OFFER) /\ ClientDiscoveryRecvOf(a)) =>
             /\ cpc' = "listen"
             /\ UNCHANGED <<server_ip, server_udp_port, server_tcp_port, retries>>
    /\ \A a \in ServerArrivals :
          (InvalidFor(a.d.data, 13, MSG_TYPE_REQUEST) /\ DispatchUdpRecvOf(a)) =>
             /\ spc' = "udp"
             /\ UNCHANGED <<udp_threads, tcp_threads, stop_event, server_exc>>
    /\ \A i \in 1..Len(udpw) : \A a \in WorkerArrivals(i) :
          (InvalidFor(a.d.data, 21, MSG_TYPE_PAYLOAD) /\ UdpWorkerRecvOf(i, a)) =>
             UNCHANGED <<udpw, udp_results>>

\* C5: at the three receive sites (discovery, dispatcher, UDP worker) a
\* datagram with another magic value, another type byte, or shorter than 9, 13
\* and 21 bytes respectively is discarded: nothing is raised, the chosen
\* server, the spawned responders and the worker's segment set and byte count
\* are unchanged, and the receiver is at its receive again.
C5_InvalidDiscarded == [][C5_Discards]_vars

\* the discovery listener has just received a datagram that is no offer, and
\* listens on with no server chosen
C5_Witness ==
    /\ cpc = "listen"
    /\ seen # <<>>
    /\ seen[Len(seen)].ev = "datagram"
    /\ InvalidFor(seen[Len(seen)].data, 9, MSG_TYPE_OFFER)
    /\ server_ip = NoHost

\* the distinct segment indices of the datagrams UDP worker i took as payload
IndicesOf(i) == {SegIndex(d.data) : d \in udpw[i].accepted}

\* the delivery figure is stored by the worker that left its receive loop
Completed(i) == udpw[i].pc = "done" /\ udpw[i].exit # "sendfail"

\* the statement of C6 as the specification words it: the figure is the ratio
C6_RatioAsStated ==
    \A i \in 1..Len(udpw) :
        Completed(i) =>
           IF udpw[i].first = <<>>
           THEN RatEq(udp_results[i][4], <<0, 1>>)
           ELSE RatEq(udp_results[i][4],
                      <<Cardinality(IndicesOf(i)), SegTotal(udpw[i].first[1].data)>>)

\* C6: for every UDP worker that completes, the reported delivery figure is
\* 100 * |received_indices| / total_segments, a percentage: received_indices
\* the distinct segment indices of the valid payload datagrams received,
\* total_segments the value carried by the first of them; it is 0 when no
\* valid segment was seen.
C6_DeliveryPercentage ==
    \A i \in 1..Len(udpw) :
        Completed(i) =>
           IF udpw[i].first = <<>>
           THEN RatEq(udp_results[i][4], <<0, 1>>)
           ELSE RatEq(udp_results[i][4],
                      <<100 * Cardinality(IndicesOf(i)), SegTotal(udpw[i].first[1].data)>>)

\* a worker that completed with 2 of 3 segments
C6_Witness ==
    \E i \in 1..Len(udpw) :
        /\ Completed(i)
        /\ Cardinality(IndicesOf(i)) = 2
        /\ SegTotal(udpw[i].first[1].data) = 3
        /\ RatEq(udp_results[i][4], <<200, 3>>)

\* C7: in every state of a UDP session, over a network that loses, duplicates
\* and reorders datagrams, the worker has recorded between 0 and total_segments
\* distinct segment indices, each below total_segments, and the figure of a
\* completed session is at most 100 percent.
C7_SegmentsBounded ==
    \A i \in 1..Len(udpw) :
        LET w == udpw[i]
            total == IF w.total_segments = None THEN 0 ELSE w.total_segments
        IN  /\ Cardinality(w.received_segments) \in 0..total
            /\ \A seg \in w.received_segments : seg \in 0..(total - 1)
            /\ Completed(i) =>
                  /\ udp_results[i][4][2] > 0
                  /\ 0 <= udp_results[i][4][1]
                  /\ udp_results[i][4][1] <= 100 * udp_results[i][4][2]

\* every segment received, one of them twice, the last before the first
C7_Witness ==
    \E i \in 1..Len(udpw) :
        /\ Completed(i)
        /\ udpw[i].total_segments = 3
        /\ Cardinality(udpw[i].received_segments) = 3
        /\ udpw[i].total_bytes_received > file_size
        /\ SegIndex(udpw[i].first[1].data) = 2

\* C8: with file_size = 0 the TCP worker reports 0 bytes and 0 bits/second and
\* no division by zero ends a worker; the UDP responder sends no datagram; the
\* UDP worker ends with an empty segment set, through its inactivity timeout
\* unless its socket fails, and reports a delivery figure of exactly 0.
C8_ZeroFileSize ==
    (file_size = 0) =>
       /\ \A i \in 1..Len(tcpw) :
             /\ tcpw[i].pc # "crashed"
             /\ tcpw[i].total_received = 0
             /\ tcpw[i].pc = "done" =>
                   /\ tcp_results[i][3] = 0
                   /\ RatEq(tcp_results[i][2], <<0, 1>>)
       /\ \A k \in 1..Len(udp_threads) :
             udp_threads[k].file_size = 0 =>
                /\ udp_threads[k].sent = <<>>
                /\ udp_threads[k].total_segments = 0
                /\ udp_threads[k].pc = "done"
       /\ \A d \in net : d.src # Addr(ServerHost, udp_port)
       /\ \A i \in 1..Len(udpw) :
             /\ udpw[i].pc # "crashed"
             /\ udpw[i].received_segments = {}
             /\ udpw[i].total_bytes_received = 0
             /\ udpw[i].pc = "done" =>
                   /\ udpw[i].exit \in {"timeout", "error", "sendfail"}
                   /\ events = 0 => udpw[i].exit = "timeout"
                   /\ udp_results[i][3] = 0
                   /\ RatEq(udp_results[i][4], <<0, 1>>)
                   /\ RatEq(udp_results[i][2], <<0, 1>>)

\* one TCP and one UDP worker have both finished a run for 0 bytes, in no
\* measurable time, the UDP worker by its timeout after the responder ended
C8_Witness ==
    /\ file_size = 0
    /\ Len(tcpw) = 1 /\ Len(udpw) = 1
    /\ tcpw[1].pc = "done" /\ ~conn[1].failed
    /\ tcp_results[1] = <<0, <<0, 1>>, 0>>
    /\ udpw[1].pc = "done" /\ udpw[1].exit = "timeout"
    /\ udp_results[1][1] = 0
    /\ \E k \in 1..Len(udp_threads) : udp_threads[k].owner = 1 /\ udp_threads[k].file_size = 0

\* an event of the discovery that is a valid offer
ValidOffer(e) == e.ev = "datagram" /\ ~InvalidFor(e.data, 9, MSG_TYPE_OFFER)

C9_Retry ==
    /\ (cpc = "listen" /\ seen' = Append(seen, TimeoutEvent)) =>
          /\ cpc' = "listen"
          /\ retries' = retries + 1
          /\ UNCHANGED <<server_ip, server_udp_port, server_tcp_port, net>>
    /\ \A a \in DiscoveryArrivals :
          (ValidOffer(DatagramEvent(a.d)) /\ ClientDiscoveryRecvOf(a)) =>
             /\ cpc' = "input"
             /\ server_ip' = a.d.src.host

\* C9: a discovery receive that times out is a retryable "no offer": the
\* client does not terminate, it is at its receive again with its socket and
\* what is queued on it untouched, and a valid offer that arrives after any
\* number of timeouts is accepted.
C9_TimeoutRetryable == [][C9_Retry]_vars

\* an offer accepted after two timeouts
C9_Witness ==
    /\ cpc = "input"
    /\ Len(seen) = 3
    /\ seen[1] = TimeoutEvent /\ seen[2] = TimeoutEvent
    /\ ValidOffer(seen[3])
    /\ retries = 2
    /\ server_ip = ServerHost

RECURSIVE CountTimeouts(_)
CountTimeouts(es) ==
    IF es = <<>> THEN 0
    ELSE (IF es[1] = TimeoutEvent THEN 1 ELSE 0) + CountTimeouts(Tail(es))

\* C10: whatever datagrams and timeouts the discovery listener sees, the
\* server address and ports it returns are the sender and the 16-bit values at
\* offsets 5 and 7 of the first valid offer of the sequence; what came before
\* left no server chosen, only the timeouts were counted as timeouts, and
\* nothing is received after that offer.
C10_FirstValidOffer ==
    /\ retries = CountTimeouts(seen)
    /\ cpc = "listen" =>
          /\ \A k \in 1..Len(seen) : ~ValidOffer(seen[k])
          /\ server_ip = NoHost /\ server_udp_port = None /\ server_tcp_port = None
    /\ cpc = "input" =>
          /\ seen # <<>>
          /\ ValidOffer(seen[Len(seen)])
          /\ \A k \in 1..(Len(seen) - 1) : ~ValidOffer(seen[k])
          /\ server_ip = seen[Len(seen)].host
          /\ server_udp_port = FieldAt(seen[Len(seen)].data, 5, 2)
          /\ server_tcp_port = FieldAt(seen[Len(seen)].data, 7, 2)

\* the server's offer taken after a datagram that is no offer and a timeout
C10_Witness ==
    /\ cpc = "input"
    /\ Len(seen) = 3
    /\ seen[1].ev = "datagram" /\ ~ValidOffer(seen[1])
    /\ seen[2] = TimeoutEvent
    /\ retries = 1
    /\ server_ip = ServerHost
    /\ server_udp_port = DEFAULT_UDP_PORT
    /\ server_tcp_port = DEFAULT_TCP_PORT

\* server main is in its dispatch loop
Running == spc \in {"udp", "tcp"}

\* C11: the server leaves its running state (stop signal set, sockets closed)
\* only when the external shutdown signal arrives: whenever it has left it,
\* what made it leave is KeyboardInterrupt, never a socket error.
C11_OnlySignalStops == ~Running => (stop_event /\ server_exc = "KeyboardInterrupt")

\* the part of C11 about responders: the step that takes the server out of its
\* running state is never a step of a responder, whatever its sends raise
C11_NoResponderStops ==
    [][(Running /\ ~Running') => UNCHANGED <<udp_threads, tcp_threads, conn>>]_vars

\* a UDP responder has given up after a failed send and the server runs on
C11_Witness ==
    /\ Running
    /\ \E k \in 1..Len(udp_threads) : udp_threads[k].failed

\* the TCP responder k has read a whole request line that is no non-negative
\* decimal integer
Malformed(k) ==
    /\ tcp_threads[k].pc # "read"
    /\ HasNewline(tcp_threads[k].data)
    /\ ~AllDigits(Strip(tcp_threads[k].data))

\* C12: for every request line that is not a valid non-negative decimal
\* integer (text, or a negative integer), the TCP responder ends in the
\* malformed-request outcome: no payload byte written, the transfer not
\* reported as done, the connection closed.
C12_MalformedAborts ==
    \A k \in 1..Len(tcp_threads) :
        Malformed(k) =>
           /\ tcp_threads[k].outcome = "invalid"
           /\ tcp_threads[k].bytes_sent = 0
           /\ conn[tcp_threads[k].conn].srv = "closed"

\* what holds of C12: no payload byte is written and the connection is closed
\* for every such line, and a line int() rejects ends in the invalid outcome
C12_NoPayloadForMalformed ==
    \A k \in 1..Len(tcp_threads) :
        Malformed(k) =>
           /\ tcp_threads[k].pc = "done"
           /\ tcp_threads[k].bytes_sent = 0
           /\ conn[tcp_threads[k].conn].s2c = 0
           /\ conn[tcp_threads[k].conn].srv = "closed"
           /\ (\A j \in 1..Len(tcp_threads[k].data) : tcp_threads[k].data[j] # "-")
                 => tcp_threads[k].outcome = "invalid"

\* the line "x" has been refused
C12_Witness ==
    \E k \in 1..Len(tcp_threads) :
        /\ tcp_threads[k].data = <<"x", "\n">>
        /\ tcp_threads[k].outcome = "invalid"
        /\ conn[tcp_threads[k].conn].srv = "closed"

\* C13: a TCP responder whose client never sends a newline has aborted and
\* closed the connection once CONN_TIMEOUT seconds have passed since the
\* accept, whatever the client does: none is still reading after that.
C13_ConnectionDeadline ==
    \A k \in 1..Len(tcp_threads) :
        tcp_threads[k].age > CONN_TIMEOUT => tcp_threads[k].pc # "read"

\* what holds of C13: no single recv waits longer than CONN_TIMEOUT seconds,
\* and a responder that timed out had waited that long with no newline read
C13_RecvDeadline ==
    \A k \in 1..Len(tcp_threads) :
        /\ tcp_threads[k].idle <= CONN_TIMEOUT
        /\ tcp_threads[k].idle <= tcp_threads[k].age
        /\ tcp_threads[k].outcome = "error" /\ conn[tcp_threads[k].conn].cli = "open" =>
              /\ tcp_threads[k].idle = CONN_TIMEOUT
              /\ ~HasNewline(tcp_threads[k].data)
              /\ conn[tcp_threads[k].conn].srv = "closed"

\* a silent client: the responder gave up CONN_TIMEOUT seconds after the accept
C13_Witness ==
    \E k \in 1..Len(tcp_threads) :
        /\ tcp_threads[k].outcome = "error"
        /\ tcp_threads[k].data = <<>>
        /\ tcp_threads[k].age = CONN_TIMEOUT
        /\ conn[tcp_threads[k].conn].srv = "closed"

\* C14: every worker the pool starts, for every integer file_size the input
\* step accepts, has written its result slot when it terminates, on every
\* path; so once every join has returned each of the N + M slots holds a
\* result.
C14_EverySlotWritten ==
    /\ \A i \in 1..Len(tcpw) : TcpTerminated(i) => tcp_results[i] # NoResult
    /\ \A i \in 1..Len(udpw) : UdpTerminated(i) => udp_results[i] # NoResult
    /\ cpc # "crashed" \/ runs = 0

\* what holds of C14: for a file_size that is not negative, every worker that
\* has terminated has written its slot
C14_SlotWrittenIfNonNegative ==
    file_size >= 0 =>
       /\ \A i \in 1..Len(tcpw) :
             TcpTerminated(i) => tcpw[i].pc = "done" /\ tcp_results[i] # NoResult
       /\ \A i \in 1..Len(udpw) :
             UdpTerminated(i) => udpw[i].pc = "done" /\ udp_results[i] # NoResult
       /\ cpc # "crashed" \/ runs = 0

\* a run is over and reported, one of its workers having failed to send its
\* request
C14_Witness ==
    /\ runs = 1
    /\ cpc = "listen"
    /\ \E i \in 1..Len(udpw) : udpw[i].exit = "sendfail" /\ udp_results[i] # NoResult

ValidRequest(data) == ~InvalidFor(data, 13, MSG_TYPE_REQUEST)

C15_Spawns ==
    /\ \A a \in ServerArrivals :
          DispatchUdpRecvOf(a) =>
             IF ValidRequest(a.d.data)
             THEN /\ Len(udp_threads') = Len(udp_threads) + 1
                  /\ \A k \in 1..Len(udp_threads) : udp_threads'[k] = udp_threads[k]
                  /\ LET t == udp_threads'[Len(udp_threads')]
                     IN  /\ t.client_address = a.d.src
                         /\ t.file_size = FieldAt(a.d.data, 5, 8)
                         /\ t.sent = <<>>
                         /\ t.seg_idx = 0
             ELSE udp_threads' = udp_threads
    /\ Len(udp_threads') # Len(udp_threads) =>
          \E a \in ServerArrivals : ValidRequest(a.d.data) /\ DispatchUdpRecvOf(a)
    /\ Len(udp_threads') = Len(udp_threads) =>
          \A j, k \in 1..Len(udp_threads) :
             (udp_threads'[j] # udp_threads[j] /\ udp_threads'[k] # udp_threads[k]) => j = k

\* C15: the dispatcher spawns exactly one UDP responder per valid Request
\* datagram it receives, with that datagram's sender address and file_size,
\* and none for an invalid one; no other step adds a responder; a repeated
\* request of the same address gets a responder of its own, and a step of one
\* responder changes no other.
C15_OneResponderPerRequest == [][C15_Spawns]_vars

\* the same request received twice: the second responder sends while the first
\* is still being served
C15_Witness ==
    /\ Len(udp_threads) = 2
    /\ udp_threads[1].client_address = udp_threads[2].client_address
    /\ udp_threads[1].pc = "send"
    /\ udp_threads[1].seg_idx = 1
    /\ Len(udp_threads[2].sent) = 2

\* a valid request is queued on the server's UDP socket
RequestPending == \E d \in net : ToServer(d) /\ ValidRequest(d.data)

\* C16: in the dispatch loop neither socket starves the other: a pending TCP
\* connection is eventually accepted whatever UDP traffic keeps arriving, and
\* a pending valid UDP request is eventually served whatever TCP connections
\* keep arriving.
C16_NoStarvation ==
    /\ (backlog # <<>>) ~> (backlog = <<>>)
    /\ RequestPending ~> ~RequestPending

\* what holds of C16: a pending valid request is eventually received, with
\* connections pending or not
C16_RequestServed == RequestPending ~> (udp_threads # <<>>)

\* a request and a connection were pending together and both have been served
C16_Witness ==
    /\ udp_threads # <<>>
    /\ tcp_threads # <<>>
    /\ backlog = <<>>
    /\ ~RequestPending

\* the responders that have called sendto
Senders == {k \in 1..Len(udp_threads) : udp_threads[k].sent # <<>> \/ udp_threads[k].failed}

\* C17: no socket is used by more than one task: a UDP responder never sends
\* on a socket that the dispatcher also receives on or closes at shutdown, no
\* two responders send on the same socket, and every accepted connection
\* belongs to one task.
C17_SingleTask ==
    /\ \A k \in Senders : udp_threads[k].server_udp_socket \notin MainSockets
    /\ \A j, k \in Senders :
          j # k => udp_threads[j].server_udp_socket # udp_threads[k].server_udp_socket
    /\ \A j, k \in 1..Len(tcp_threads) : j # k => tcp_threads[j].conn # tcp_threads[k].conn

\* what holds of C17: an accepted connection is handled by one handler thread
\* only, and it has left the listening socket's backlog
C17_ConnectionsOwned ==
    /\ \A j, k \in 1..Len(tcp_threads) : j # k => tcp_threads[j].conn # tcp_threads[k].conn
    /\ \A k \in 1..Len(tcp_threads) :
          /\ tcp_threads[k].conn \in 1..Len(conn)
          /\ conn[tcp_threads[k].conn].srv \in {"open", "closed"}
          /\ \A n \in 1..Len(backlog) : backlog[n] # tcp_threads[k].conn

\* two connections are being handled, by a handler thread each
C17_Witness ==
    /\ Len(tcp_threads) = 2
    /\ \A k \in 1..2 : tcp_threads[k].pc # "read"

BroadcasterRunning == bpc \in {"test", "send"}

\* the offers of this server that are on their way to the discovery port
ServerOffers(n) == {d \in n : d.src.host = ServerHost /\ ToDiscovery(d)}

C18_StopStep ==
    /\ (BroadcasterRunning /\ ~BroadcasterRunning') => stop_event
    /\ (bpc = "send" /\ ~stop_event') => BroadcasterRunning'
    /\ ~BroadcasterRunning =>
          /\ ~BroadcasterRunning'
          /\ ServerOffers(net') \subseteq ServerOffers(net)
          /\ late_offers' = late_offers

C19_BackToDiscovery == (cpc = "join") ~> (cpc = "listen")

\* what holds of C19: every worker thread eventually ends, and for a file size
\* that is not negative the client goes back to discovery
C19_WorkersTerminate ==
    /\ <>[]AllJoined
    /\ (cpc = "join" /\ file_size >= 0) ~> (cpc = "listen")

\* both workers have ended with their results and main listens again
C19_Witness ==
    /\ cpc = "listen"
    /\ runs = 1
    /\ tcpw[1].pc = "done" /\ tcpw[1].total_received = file_size
    /\ udpw[1].pc = "done" /\ udpw[1].exit = "timeout"
    /\ file_size = SmallFile

\* the payload bytes of the segments idxs of a transfer of size bytes
RECURSIVE SumSegments(_, _)
SumSegments(size, idxs) ==
    IF idxs = {} THEN 0
    ELSE LET i == CHOOSE x \in idxs : TRUE IN
         Min(CHUNK_SIZE, size - CHUNK_SIZE * i) + SumSegments(size, idxs \ {i})

\* C20: in a UDP session whose network loses and reorders but does not
\* duplicate the responder's datagrams, the worker's total_bytes_received is
\* the sum of the payload lengths of the distinct segment indices it has
\* recorded, hence at most file_size, and equal to file_size exactly when all
\* total_segments indices were received.
C20_BytesMatchSegments ==
    \A i \in 1..Len(udpw) :
        LET w == udpw[i] IN
        /\ w.total_bytes_received = SumSegments(file_size, w.received_segments)
        /\ w.total_bytes_received <= file_size
        /\ w.received_segments \subseteq 0..(CeilDiv(file_size, CHUNK_SIZE) - 1)
        /\ w.total_bytes_received = file_size
              <=> w.received_segments = 0..(CeilDiv(file_size, CHUNK_SIZE) - 1)

\* the middle segment of three was lost and the last one came before the
\* first: the worker has counted the bytes of segments 0 and 2
C20_Witness ==
    /\ file_size = BigFile
    /\ udpw[1].pc = "done"
    /\ udpw[1].received_segments = {0, 2}
    /\ SegIndex(udpw[1].first[1].data) = 2
    /\ udpw[1].total_bytes_received = BigFile - CHUNK_SIZE

====
